---- MODULE Spec2Model ----
(***************************************************************************)
(* A model of scrapperf's scenario engine (src/perf_runner.py):            *)
(*   - do_target: the target executor, with the wait_any racing combinator *)
(*     and the wait_stable quiescence detector, over a discrete clock;     *)
(*   - run_once / main: the measurement loop, the run loop and the report; *)
(*   - percentile / summarize: the statistics, applied to drawn inputs.    *)
(* Time is in abstract milliseconds.  A blocking call of the page takes    *)
(* exactly its nominal time; the clock `now` jumps from one return to the  *)
(* next.  An optional field of a JSON object is a sequence: <<>> when the  *)
(* key is absent, <<v>> when it is present with value v.                   *)
(***************************************************************************)
EXTENDS Integers, Sequences, FiniteSets, TLC

(* ------------------------------ bounds -------------------------------- *)
MaxAt == 4        \* latest instant at which a selector reaches its state
MaxTimeout == 4   \* largest scenario timeout_ms drawn
MaxErrs == 9      \* cap on the length of a wait_any's last_errs
MaxChangeAt == 5  \* latest instant at which the document's snapshot changes
MaxRuns == 3      \* largest run count drawn
ActMs == 1        \* the time a navigation, click or fill that succeeds takes
MaxLen == 4       \* longest list of durations handed to the statistics
MaxDur == 3       \* largest duration in such a list

(* ------------------------- program constants -------------------------- *)
DefaultStableMs == 600
DefaultPollMs == 100
DefaultSliceMs == 400
DefaultPollGapMs == 50
TailLen == 6

VARIABLES
  now,         \* ms_now(): the monotonic clock
  page,        \* the document: when each selector reaches the awaited state,
               \* and at which instants its structural snapshot changes
  tgt,         \* the target instruction handed to do_target
  timeout_ms,  \* the timeout budget handed to do_target
  stack,       \* the do_target activations in progress (innermost last)
  result,      \* what the outermost do_target call returned or raised
  log,         \* history: the sub-target attempts and poll gaps so far
  polls,       \* history: the snapshots taken by the outermost wait_stable
  cfg,         \* the scenario: runs, timeout_ms, measurements
  pc,          \* where main is: "measure", "target", "wait", "report", "done"
               \* ("call" when do_target is exercised on its own)
  i,           \* main: the run loop's index
  j,           \* run_once: the index of the measurement in hand
  t0,          \* run_once: t0 of the measurement in hand
  out,         \* run_once: the results of the run in hand
  all_runs,    \* main: the OneRunResults so far
  summary,     \* main: the report written (<<>> until then)
  trigs,       \* history: the (run, measurement) of every trigger executed
  phases,      \* history: the phases of the measurements, with their instants
  vals,        \* the list of durations handed to percentile / summarize
  pct,         \* the p handed to percentile, in percent
  stat         \* what percentile / summarize returned

rvars == <<cfg, pc, i, j, t0, out, all_runs, summary, trigs, phases>>
svars == <<vals, pct, stat>>
vars == <<now, page, tgt, timeout_ms, stack, result, log, polls,
          cfg, pc, i, j, t0, out, all_runs, summary, trigs, phases,
          vals, pct, stat>>

Min(a, b) == IF a <= b THEN a ELSE b
Max(a, b) == IF a >= b THEN a ELSE b

\* dict.get(key, default)
Get(f, d) == IF f = <<>> THEN d ELSE f[1]

(* ------------------------- target instructions ------------------------ *)
Target(type, selector, ms, stable_ms, poll_ms, targets, tmo, slice_ms, poll_gap_ms) ==
  [type |-> type, selector |-> selector, ms |-> ms, stable_ms |-> stable_ms,
   poll_ms |-> poll_ms, targets |-> targets, timeout_ms |-> tmo,
   slice_ms |-> slice_ms, poll_gap_ms |-> poll_gap_ms]

WaitState(type, sel) == Target(type, sel, <<>>, <<>>, <<>>, <<>>, <<>>, <<>>, <<>>)
SleepT(ms) == Target("sleep", "", ms, <<>>, <<>>, <<>>, <<>>, <<>>, <<>>)
WaitStableT(st, po) == Target("wait_stable", "", <<>>, st, po, <<>>, <<>>, <<>>, <<>>)
WaitAnyT(targets, tmo, sl, gap) ==
  Target("wait_any", "", <<>>, <<>>, <<>>, targets, tmo, sl, gap)
BogusT == Target("wait_gone", "", <<>>, <<>>, <<>>, <<>>, <<>>, <<>>, <<>>)

StateTypes == {"wait_visible", "wait_hidden", "wait_attached", "wait_detached"}

(* ----------------------------- the document --------------------------- *)
\* The structural snapshots a document goes through, one change after the
\* other; two neighbours differ in exactly one field.
Variants ==
  << [nodes |-> 3, h |-> 10, w |-> 10, rs |-> "complete"],
     [nodes |-> 4, h |-> 10, w |-> 10, rs |-> "complete"],
     [nodes |-> 4, h |-> 11, w |-> 10, rs |-> "complete"],
     [nodes |-> 4, h |-> 11, w |-> 11, rs |-> "complete"],
     [nodes |-> 4, h |-> 11, w |-> 11, rs |-> "loading"] >>

NChanges(t) == Cardinality({c \in page.changes : c <= t})

\* snap() evaluated in the page at instant t
snap(t) == Variants[(NChanges(t) % page.cycle) + 1]

changed(cur, prev) ==
  \/ cur.nodes # prev.nodes
  \/ cur.h # prev.h
  \/ cur.w # prev.w
  \/ cur.rs # prev.rs

\* (mutant) lastChange is never reset
KeepLastChange(ch, t, lastChange) == lastChange

\* (mutant) the snapshot compared against is never replaced
KeepPrev(ch, cur, prev) == prev

\* if (changed) { lastChange = performance.now(); prev = cur; }
NewLastChange(ch, t, lastChange) == IF ch THEN t ELSE lastChange
NewPrev(ch, cur, prev) == IF ch THEN cur ELSE prev

\* (mutant) success one millisecond short of stableMs
quiet_early(t, lastChange, stableMs) == t - lastChange >= stableMs - 1

\* if (performance.now() - lastChange >= stableMs) return true
quiet(t, lastChange, stableMs) == t - lastChange >= stableMs

(* ------------------------- outcomes of a call ------------------------- *)
Returned(details) ==
  [ok |-> TRUE, details |-> details, name |-> "", msg |-> "", tail |-> <<>>]
Raised(name, msg, tail) ==
  [ok |-> FALSE, details |-> <<>>, name |-> name, msg |-> msg, tail |-> tail]

\* (mutant) a sleep longer than the timeout raises when the timeout elapses
do_sleep_bounded(t, s, p) ==
  IF Get(t.ms, 0) <= p THEN {[out |-> Returned(<<>>), at |-> s + Get(t.ms, 0)]}
  ELSE {[out |-> Raised("TimeoutError", "Timeout exceeded", <<>>), at |-> s + p]}

\* ms = int(tgt.get("ms", 0)); page.wait_for_timeout(ms); return None
do_sleep(t, s, p) == {[out |-> Returned(<<>>), at |-> s + Get(t.ms, 0)]}

\* The outcomes of a target that is neither wait_any nor wait_stable, called
\* at instant s with timeout p: records [out, at].  A selector that reaches
\* its state exactly when the timeout fires is a race: both outcomes.
LeafOutcomes(t, s, p) ==
  IF t.type \in StateTypes THEN
    LET r == page.ready[t.selector] IN
      {[out |-> Returned(<<>>), at |-> Max(s, r[1])] : x \in {1} \cap
           (IF r # <<>> /\ r[1] <= s + p THEN {1} ELSE {})}
      \cup
      {[out |-> Raised("TimeoutError", "Timeout exceeded", <<>>), at |-> s + p] : x \in {1} \cap
           (IF r = <<>> \/ r[1] >= s + p THEN {1} ELSE {})}
  ELSE IF t.type = "sleep" THEN
    do_sleep(t, s, p)
  ELSE
    {[out |-> Raised("ValueError", "Unsupported target type", <<>>), at |-> s]}

(* ------------------------------ frames -------------------------------- *)
\* An activation of do_target that is a loop: wait_any or wait_stable.
\*   budget_end  the instant the caller's timeout_ms runs out
\*   deadline    wait_any: deadline; wait_stable: the wait_for_function timeout
\*   idx         wait_any: the index (0-based) of the sub-target in hand
Frame(t, s, p) ==
  [tgt |-> t, entered |-> s, budget_end |-> s + p,
   deadline |-> IF t.type = "wait_any" THEN s + Get(t.timeout_ms, p) ELSE s + p,
   idx |-> 0, last_errs |-> <<>>,
   lastChange |-> s, prev |-> snap(s)]

top == stack[Len(stack)]
Front(s) == SubSeq(s, 1, Len(s) - 1)

slice_of(f) == Get(f.tgt.slice_ms, DefaultSliceMs)
poll_gap_of(f) == Get(f.tgt.poll_gap_ms, DefaultPollGapMs)
stable_of(f) == Get(f.tgt.stable_ms, DefaultStableMs)
poll_of(f) == Get(f.tgt.poll_ms, DefaultPollMs)

\* remaining = int(max(0, deadline - ms_now()))
remaining(f, t) == Max(0, f.deadline - t)

\* (mutant) every attempt gets the whole slice
per_try_slice(f, t) == slice_of(f)

\* per_try = min(slice_ms, remaining)
per_try(f, t) == Min(slice_of(f), remaining(f, t))

\* (mutant) last_errs[:6]
Head6(errs) == SubSeq(errs, 1, Min(Len(errs), TailLen))

\* last_errs[-6:]
Tail6(errs) == SubSeq(errs, Max(1, Len(errs) - TailLen + 1), Len(errs))

Running == [status |-> "running", details |-> <<>>, name |-> "", msg |-> "",
            tail |-> <<>>, doneAt |-> 0]
Idle == [Running EXCEPT !.status = "idle"]

\* (mutant) the sub-target after a failed one is skipped
next_idx_skip(f) == f.idx + 2

\* for idx, sub in enumerate(targets): the sub-target after the one in hand
next_idx(f) == f.idx + 1

\* (mutant) the index counts from one
WinnerFromOne(f) == [wait_any_winner_index |-> f.idx + 1,
                     wait_any_winner |-> f.tgt.targets[f.idx + 1]]

\* return {"wait_any_winner_index": idx, "wait_any_winner": sub}
Winner(f) == [wait_any_winner_index |-> f.idx,
              wait_any_winner |-> f.tgt.targets[f.idx + 1]]

\* The call made by the frame on top of stk (or by the runner, when stk is
\* empty) has ended with outcome oc at instant t.  A wait_any whose attempt
\* returned returns the winner at once; one whose attempt raised records the
\* error and moves to the next sub-target.
RECURSIVE Completed(_, _, _, _)
Completed(stk, oc, t, lg) ==
  IF stk = <<>> THEN
    [now |-> t, stack |-> <<>>, log |-> lg,
     result |-> [status |-> IF oc.ok THEN "ok" ELSE "error",
                 details |-> oc.details, name |-> oc.name, msg |-> oc.msg,
                 tail |-> oc.tail, doneAt |-> t]]
  ELSE
    LET f == stk[Len(stk)] IN
      IF oc.ok THEN
        Completed(Front(stk), Returned(<<Winner(f)>>), t, lg)
      ELSE
        [now |-> t, log |-> lg, result |-> Running,
         stack |-> [stk EXCEPT ![Len(stk)] =
                      [f EXCEPT !.last_errs =
                                   Append(@, [idx |-> f.idx, name |-> oc.name,
                                              msg |-> oc.msg, tail |-> oc.tail]),
                                !.idx = next_idx(f)]]]

\* do_target(page, t, timeout_ms = p) called at instant s from the frame on
\* top of stk: the set of next states [now, stack, result, log].
Call(t, s, p, stk, lg) ==
  IF t.type = "wait_any" THEN
    IF t.targets = <<>> THEN
      {Completed(stk, Raised("ValueError", "wait_any requires a non-empty 'targets' list",
                             <<>>), s, lg)}
    ELSE IF s < s + Get(t.timeout_ms, p) THEN
      {[now |-> s, stack |-> Append(stk, Frame(t, s, p)), result |-> Running,
        log |-> lg]}
    ELSE
      {Completed(stk, Raised("TimeoutError", "wait_any timed out. Recent errors", <<>>),
                 s, lg)}
  ELSE IF t.type = "wait_stable" THEN
    {[now |-> s, stack |-> Append(stk, Frame(t, s, p)), result |-> Running,
      log |-> lg]}
  ELSE
    {Completed(stk, o.out, o.at, lg) : o \in LeafOutcomes(t, s, p)}

Becomes(st) ==
  /\ now' = st.now
  /\ stack' = st.stack
  /\ result' = st.result
  /\ log' = st.log
  /\ UNCHANGED <<page, tgt, timeout_ms>>
  /\ UNCHANGED rvars
  /\ UNCHANGED svars

\* the stack holds nothing but one wait_stable called by the runner
Outermost == Len(stack) = 1

(* ------------------------------ actions ------------------------------- *)
\* The runner calls do_target(page, tgt, timeout_ms).
Invoke ==
  /\ pc = "call"
  /\ result.status = "idle"
  /\ \E st \in Call(tgt, now, timeout_ms, <<>>, log) : Becomes(st)
  /\ polls' = IF tgt.type = "wait_stable" THEN <<[at |-> now, cur |-> snap(now)]>>
              ELSE polls

\* One iteration of wait_any's for loop that attempts a sub-target.
WaitAnyAttempt ==
  /\ stack # <<>>
  /\ top.tgt.type = "wait_any"
  /\ top.idx < Len(top.tgt.targets)
  /\ Len(top.last_errs) < MaxErrs
  /\ remaining(top, now) > 0
  /\ LET lg == Append(log, [ev |-> "try", depth |-> Len(stack), idx |-> top.idx,
                            at |-> now, ms |-> per_try(top, now)])
     IN \E st \in Call(top.tgt.targets[top.idx + 1], now, per_try(top, now), stack, lg) :
          Becomes(st)
  /\ UNCHANGED polls

\* The for loop is over (exhausted, or left by break): sleep poll_gap_ms,
\* then test the while condition: a new round, or the timeout error.
WaitAnyPollGap ==
  /\ stack # <<>>
  /\ top.tgt.type = "wait_any"
  /\ \/ top.idx >= Len(top.tgt.targets)
     \/ remaining(top, now) <= 0
  /\ LET t == now + poll_gap_of(top)
         lg == Append(log, [ev |-> "gap", depth |-> Len(stack),
                            idx |-> top.idx, at |-> now, ms |-> poll_gap_of(top)])
     IN IF t < top.deadline THEN
          /\ now' = t
          /\ stack' = [stack EXCEPT ![Len(stack)] = [top EXCEPT !.idx = 0]]
          /\ log' = lg
          /\ UNCHANGED <<page, tgt, timeout_ms, result>>
          /\ UNCHANGED rvars
          /\ UNCHANGED svars
        ELSE
          Becomes(Completed(Front(stack),
                            Raised("TimeoutError", "wait_any timed out. Recent errors",
                                   Tail6(top.last_errs)), t, lg))
  /\ UNCHANGED polls

\* One iteration of wait_stable's loop in the page, under the timeout of
\* wait_for_function.  A poll that falls exactly on the timeout is a race.
WaitStablePoll ==
  /\ stack # <<>>
  /\ top.tgt.type = "wait_stable"
  /\ LET t == now + poll_of(top) IN
       \/ /\ t >= top.deadline
          /\ Becomes(Completed(Front(stack),
                               Raised("TimeoutError", "Timeout exceeded", <<>>),
                               top.deadline, log))
          /\ UNCHANGED polls
       \/ /\ t <= top.deadline
          /\ polls' = IF Outermost THEN Append(polls, [at |-> t, cur |-> snap(t)])
                      ELSE polls
          /\ LET cur == snap(t)
                 ch == changed(cur, top.prev)
                 lastChange == NewLastChange(ch, t, top.lastChange)
                 prev == NewPrev(ch, cur, top.prev)
             IN IF quiet(t, lastChange, stable_of(top)) THEN
                  Becomes(Completed(Front(stack), Returned(<<>>), t, log))
                ELSE
                  /\ now' = t
                  /\ stack' = [stack EXCEPT ![Len(stack)] =
                                 [top EXCEPT !.lastChange = lastChange,
                                             !.prev = prev]]
                  /\ UNCHANGED <<page, tgt, timeout_ms, result, log>>
                  /\ UNCHANGED rvars
                  /\ UNCHANGED svars

(* --------------------------- initial states --------------------------- *)
Selectors == {"#a", "#b"}
ReadyTimes == {<<>>} \cup {<<a>> : a \in 0..MaxAt}
Timeouts == {MaxTimeout - 1, MaxTimeout}
QuietPage == [ready |-> [s \in Selectors |-> <<>>], changes |-> {}, cycle |-> 2,
              navs |-> 0, inputs |-> 0]

RaceSubs == {WaitState("wait_visible", "#a"), WaitState("wait_hidden", "#b"),
             SleepT(<<2>>), BogusT}
Slices == {<<>>, <<1>>, <<2>>}
Gaps == {<<0>>, <<1>>}

\* a wait_any over two leaf sub-targets
InitRace ==
  /\ \E a, b \in RaceSubs, sl \in Slices, gap \in Gaps :
       tgt = WaitAnyT(<<a, b>>, <<>>, sl, gap)
  /\ \E r \in [Selectors -> ReadyTimes] : page = [QuietPage EXCEPT !.ready = r]
  /\ timeout_ms \in Timeouts

\* a wait_any over three sub-targets that fail fast: many recorded errors
InitRace3 ==
  /\ \E a, b, c \in {WaitState("wait_attached", "#a"), BogusT},
        sl \in {<<1>>}, gap \in Gaps, ov \in {<<>>, <<0>>, <<MaxTimeout + 1>>} :
       tgt = WaitAnyT(<<a, b, c>>, ov, sl, gap)
  /\ \E r \in {<<>>, <<MaxAt>>} :
       page = [QuietPage EXCEPT !.ready["#a"] = r]
  /\ timeout_ms \in Timeouts

\* a wait_any whose first sub-target is a wait_any (or has no targets)
InnerSubs == {WaitState("wait_visible", "#a"), BogusT, SleepT(<<1>>)}
InitNested ==
  /\ \E x \in InnerSubs, y \in InnerSubs \cup {WaitAnyT(<<>>, <<>>, <<>>, <<>>)},
        ov \in {<<>>, <<1>>, <<MaxTimeout + 2>>},
        isl \in {<<>>, <<1>>}, igap \in {<<0>>, <<MaxTimeout>>},
        sl \in {<<1>>, <<2>>}, gap \in Gaps :
       tgt = WaitAnyT(<<WaitAnyT(<<x>>, ov, isl, igap), y>>, <<>>, sl, gap)
  /\ \E r \in ReadyTimes : page = [QuietPage EXCEPT !.ready["#a"] = r]
  /\ timeout_ms \in Timeouts

\* a wait_stable, alone or raced against a selector, on a changing document
StableMs == {<<>>, <<0>>, <<1>>, <<2>>, <<3>>}
PollMs == {<<>>, <<1>>, <<2>>}
InitStable ==
  /\ \E st \in StableMs, po \in PollMs :
       \/ tgt = WaitStableT(st, po)
       \/ /\ po # <<>>
          /\ tgt = WaitAnyT(<<WaitStableT(st, po), WaitState("wait_detached", "#a")>>,
                            <<>>, <<MaxTimeout>>, <<1>>)
  /\ \E ch \in SUBSET (1..MaxChangeAt), cy \in {2, Len(Variants)} :
       page = [QuietPage EXCEPT !.changes = ch, !.cycle = cy]
  /\ timeout_ms \in {MaxChangeAt + 1, MaxChangeAt + 3}

\* a target that is no loop, called by the runner
InitLeaf ==
  /\ \/ \E ty \in StateTypes, sel \in Selectors : tgt = WaitState(ty, sel)
     \/ \E ms \in {<<>>} \cup {<<m>> : m \in 0..(MaxTimeout + 1)} : tgt = SleepT(ms)
     \/ tgt \in {BogusT, WaitAnyT(<<>>, <<>>, <<>>, <<>>)}
  /\ \E r \in [Selectors -> ReadyTimes] : page = [QuietPage EXCEPT !.ready = r]
  /\ timeout_ms \in Timeouts

NoStat == [op |-> "none"]

NoRun ==
  /\ cfg = [runs |-> 0, timeout_ms |-> 0, measurements |-> <<>>]
  /\ pc = "call"
  /\ i = 0
  /\ j = 0
  /\ t0 = 0
  /\ out = <<>>
  /\ all_runs = <<>>
  /\ summary = <<>>
  /\ trigs = <<>>
  /\ phases = <<>>
  /\ vals = <<>>
  /\ pct = 0
  /\ stat = NoStat

InitTarget ==
  /\ NoRun
  /\ now = 0
  /\ stack = <<>>
  /\ result = Idle
  /\ log = <<>>
  /\ polls = <<>>
  /\ \/ InitRace
     \/ InitRace3
     \/ InitNested
     \/ InitStable
     \/ InitLeaf

NextTarget ==
  \/ Invoke
  \/ WaitAnyAttempt
  \/ WaitAnyPollGap
  \/ WaitStablePoll

SpecTarget == InitTarget /\ [][NextTarget]_vars

(* ------------------------------ triggers ------------------------------ *)
Trigger(type, selector, key, ms) ==
  [type |-> type, selector |-> selector, key |-> key, ms |-> ms]

Passed(t) == [ok |-> TRUE, name |-> "", msg |-> "", at |-> t]
Failed(name, msg, t) == [ok |-> FALSE, name |-> name, msg |-> msg, at |-> t]

TriggerTypes == {"goto", "click", "fill", "press", "sleep"}

\* The branches of do_trigger for the five trigger types, called at instant s
\* with timeout p: the outcomes [ok, name, msg, at].  Whether the page lets
\* an action through is the page's business.
trigger_action(trig, s, p) ==
  IF trig.type = "goto" THEN
    {Passed(s + ActMs), Failed("TimeoutError", "Timeout exceeded", s + p)}
  ELSE IF trig.type \in {"click", "fill"} THEN
    IF trig.selector = <<>> THEN {Failed("KeyError", "'selector'", s)}
    ELSE {Passed(s + ActMs), Failed("TimeoutError", "Timeout exceeded", s + p)}
  ELSE IF trig.type = "press" THEN
    IF trig.key = <<>> THEN {Failed("KeyError", "'key'", s)}
    ELSE {Passed(s), Failed("Error", "Unknown key", s)}
  ELSE
    {Passed(s + Get(trig.ms, 0))}

\* (mutant) a type that is not supported passes as a no-op
do_trigger_lenient(trig, s, p) ==
  IF trig.type \in TriggerTypes THEN trigger_action(trig, s, p)
  ELSE {Passed(s)}

do_trigger(trig, s, p) ==
  IF trig.type \in TriggerTypes THEN trigger_action(trig, s, p)
  ELSE {Failed("ValueError", "Unsupported trigger type", s)}

\* What a trigger that ended with outcome o has done to the document: a goto
\* starts a navigation (whether or not it ends within the timeout); a click,
\* a fill or a key press that went through is an input; nothing else touches
\* the document.
trigger_effect(trig, o, pg) ==
  IF trig.type = "goto" THEN [pg EXCEPT !.navs = @ + 1]
  ELSE IF trig.type \in {"click", "fill", "press"} /\ o.ok THEN [pg EXCEPT !.inputs = @ + 1]
  ELSE pg

(* ----------------------------- statistics ----------------------------- *)
\* Durations are whole milliseconds; a statistic is kept in hundredths of a
\* millisecond, the two decimals round(x, 2) keeps.
RECURSIVE Insert(_, _)
Insert(xs, v) ==
  IF xs = <<>> THEN <<v>>
  ELSE IF v <= Head(xs) THEN <<v>> \o xs
  ELSE <<Head(xs)>> \o Insert(Tail(xs), v)

RECURSIVE sorted(_)
sorted(values) ==
  IF values = <<>> THEN <<>> ELSE Insert(sorted(Tail(values)), Head(values))

RECURSIVE Sum(_)
Sum(values) == IF values = <<>> THEN 0 ELSE Head(values) + Sum(Tail(values))

\* round(a / b, 2) of hundredths a / b: to the nearest, a tie to the even
Round(a, b) ==
  LET q == a \div b
      r == a % b
  IN IF 2 * r < b THEN q
     ELSE IF 2 * r > b THEN q + 1
     ELSE IF q % 2 = 0 THEN q ELSE q + 1

\* (mutant) the values are not sorted first
percentile_unsorted(values, P) ==
  IF values = <<>> THEN <<>>
  ELSE
    LET xs == values
        n == Len(xs)
    IN IF n = 1 THEN <<100 * xs[1]>>
       ELSE
         LET k == (n - 1) * P
             f == k \div 100
             c == Min(f + 1, n - 1)
         IN IF f = c THEN <<100 * xs[f + 1]>>
            ELSE <<100 * xs[f + 1] + (xs[c + 1] - xs[f + 1]) * (k - 100 * f)>>

\* percentile(values, P / 100), in hundredths; <<>> is float("nan")
percentile(values, P) ==
  IF values = <<>> THEN <<>>
  ELSE
    LET xs == sorted(values)
        n == Len(xs)
    IN IF n = 1 THEN <<100 * xs[1]>>
       ELSE
         LET k == (n - 1) * P           \* k, in hundredths
             f == k \div 100
             c == Min(f + 1, n - 1)
         IN IF f = c THEN <<100 * xs[f + 1]>>
            ELSE <<100 * xs[f + 1] + (xs[c + 1] - xs[f + 1]) * (k - 100 * f)>>

\* int(k) of k in hundredths: towards zero
int_of(k) == IF k >= 0 THEN k \div 100 ELSE -((-k) \div 100)

\* measure_ui.py's percentile: f = int(k) where perf_runner.py has floor
percentile_ui(values, P) ==
  IF values = <<>> THEN <<>>
  ELSE
    LET xs == sorted(values)
        n == Len(xs)
    IN IF n = 1 THEN <<100 * xs[1]>>
       ELSE
         LET k == (n - 1) * P
             f == int_of(k)
             c == Min(f + 1, n - 1)
         IN IF f = c THEN <<100 * xs[f + 1]>>
            ELSE <<100 * xs[f + 1] + (xs[c + 1] - xs[f + 1]) * (k - 100 * f)>>

\* (mutant) p50_ms and p95_ms exchanged
summarize_swapped(values) ==
  IF values = <<>> THEN [n |-> 0]
  ELSE [n |-> Len(values),
        avg_ms |-> Round(100 * Sum(values), Len(values)),
        p50_ms |-> percentile(values, 95)[1],
        p95_ms |-> percentile(values, 50)[1],
        min_ms |-> 100 * sorted(values)[1],
        max_ms |-> 100 * sorted(values)[Len(values)]]

summarize(values) ==
  IF values = <<>> THEN [n |-> 0]
  ELSE [n |-> Len(values),
        avg_ms |-> Round(100 * Sum(values), Len(values)),
        p50_ms |-> percentile(values, 50)[1],
        p95_ms |-> percentile(values, 95)[1],
        min_ms |-> 100 * sorted(values)[1],
        max_ms |-> 100 * sorted(values)[Len(values)]]

(* ------------------------------ run_once ------------------------------ *)
Measurement(name, trigger, target) ==
  [name |-> name, trigger |-> trigger, target |-> target]

OneMeasurementResult(name, ok, duration_ms, error, details) ==
  [name |-> name, ok |-> ok, duration_ms |-> duration_ms, error |-> error,
   details |-> details]

OneRunResult(run_index, measurements) ==
  [run_index |-> run_index, measurements |-> measurements]

name_of(m) == Get(m.name, "unnamed")

\* (mutant) the clock at the end, not the time elapsed
duration_absolute(t1, start) == t1

\* duration_ms = round(t1 - t0, 2)
duration_ms(t1, start) == t1 - start

\* (mutant) a measurement that fails ends the run
AfterMeasurementAbort(jj, ok) == IF ok THEN jj + 1 ELSE Len(cfg.measurements)

\* for m in measurements: the loop goes on to the next measurement whether
\* the one in hand succeeded or raised
AfterMeasurement(jj, ok) == jj + 1

\* t0 = ms_now(); do_trigger(...): a trigger that raises ends the measurement
MeasureTrigger ==
  /\ pc = "measure"
  /\ j < Len(cfg.measurements)
  /\ LET m == cfg.measurements[j + 1] IN
       \E o \in do_trigger(m.trigger, now, cfg.timeout_ms) :
         /\ t0' = now
         /\ now' = o.at
         /\ trigs' = Append(trigs, [run |-> i + 1, m |-> j])
         /\ page' = trigger_effect(m.trigger, o, page)
         /\ phases' = Append(phases, [run |-> i + 1, m |-> j, ph |-> "trigger",
                                       from |-> now, to |-> o.at, ok |-> o.ok])
         /\ IF o.ok THEN
              /\ pc' = "target"
              /\ UNCHANGED <<out, j>>
            ELSE
              /\ out' = Append(out, OneMeasurementResult(name_of(m), FALSE, duration_ms(o.at, now),
                                     <<[msg |-> o.msg, tail |-> <<>>]>>, <<>>))
              /\ j' = AfterMeasurement(j, FALSE)
              /\ pc' = "measure"
  /\ UNCHANGED <<tgt, timeout_ms, stack, result, log, polls>>
  /\ UNCHANGED <<cfg, i, all_runs, summary>>
  /\ UNCHANGED svars

\* details = do_target(page, tgt, timeout_ms=timeout_ms)
MeasureTarget ==
  /\ pc = "target"
  /\ LET m == cfg.measurements[j + 1] IN
       /\ \E st \in Call(m.target, now, cfg.timeout_ms, <<>>, <<>>) :
            /\ now' = st.now
            /\ stack' = st.stack
            /\ result' = st.result
            /\ log' = st.log
       /\ tgt' = m.target
       /\ timeout_ms' = cfg.timeout_ms
       /\ polls' = IF m.target.type = "wait_stable"
                   THEN <<[at |-> now, cur |-> snap(now)]>> ELSE <<>>
  /\ phases' = Append(phases, [run |-> i + 1, m |-> j, ph |-> "target",
                                from |-> now, to |-> now, ok |-> TRUE])
  /\ pc' = "wait"
  /\ UNCHANGED <<page, cfg, i, j, t0, out, all_runs, summary, trigs>>
  /\ UNCHANGED svars

\* t1 = ms_now(); out.append(...): do_target has returned or raised
MeasureRecord ==
  /\ pc = "wait"
  /\ result.status \in {"ok", "error"}
  /\ LET m == cfg.measurements[j + 1] IN
       out' = Append(out,
                IF result.status = "ok"
                THEN OneMeasurementResult(name_of(m), TRUE, duration_ms(now, t0), <<>>,
                                          result.details)
                ELSE OneMeasurementResult(name_of(m), FALSE, duration_ms(now, t0),
                                          <<[msg |-> result.msg, tail |-> result.tail]>>,
                                          <<>>))
  /\ j' = AfterMeasurement(j, result.status = "ok")
  /\ result' = Idle
  /\ phases' = Append(phases, [run |-> i + 1, m |-> j, ph |-> "t1",
                                from |-> now, to |-> now,
                                ok |-> result.status = "ok"])
  /\ pc' = "measure"
  /\ UNCHANGED <<now, page, tgt, timeout_ms, stack, log, polls>>
  /\ UNCHANGED <<cfg, i, t0, all_runs, summary, trigs>>
  /\ UNCHANGED svars

(* -------------------------------- main -------------------------------- *)
\* (mutant) a run with a failed measurement is the last one
AfterRunStop(ii, results) ==
  IF ii + 1 < cfg.runs /\ \A k \in 1..Len(results) : results[k].ok
  THEN "measure" ELSE "report"

\* for i in range(runs): the next run, whatever the results of this one
AfterRun(ii, results) == IF ii + 1 < cfg.runs THEN "measure" ELSE "report"

\* (mutant) the document is loaded anew after every run
page_reloaded(pg) == [pg EXCEPT !.navs = @ + 1, !.inputs = 0]

\* The rest of the run loop's body (the append and the printed line) does
\* nothing to the page: the next run_once gets the same page, as it is.
page_after_run(pg) == pg

\* run_once has returned: all_runs.append(OneRunResult(i + 1, results))
EndRun ==
  /\ pc = "measure"
  /\ j >= Len(cfg.measurements)
  /\ all_runs' = Append(all_runs, OneRunResult(i + 1, out))
  /\ i' = i + 1
  /\ j' = 0
  /\ out' = <<>>
  /\ pc' = AfterRun(i, out)
  /\ page' = page_after_run(page)
  /\ UNCHANGED <<now, tgt, timeout_ms, stack, result, log, polls>>
  /\ UNCHANGED <<cfg, t0, summary, trigs, phases>>
  /\ UNCHANGED svars

\* a dict d with d[k] = v
Put(d, k, v) == [x \in DOMAIN d \cup {k} |-> IF x = k THEN v ELSE d[x]]
GetOr(d, k, v) == IF k \in DOMAIN d THEN d[k] ELSE v

\* (mutant) the duration of a failed measurement is kept too
TallyEvery(acc, m) ==
  IF m.ok THEN
    [acc EXCEPT !.by_name = Put(@, m.name, Append(GetOr(@, m.name, <<>>), m.duration_ms))]
  ELSE
    [acc EXCEPT !.by_name = Put(@, m.name, Append(GetOr(@, m.name, <<>>), m.duration_ms)),
                !.errors = Put(@, m.name, GetOr(@, m.name, 0) + 1)]

\* the body of the loop over run.measurements
Tally(acc, m) ==
  IF m.ok THEN
    [acc EXCEPT !.by_name = Put(@, m.name, Append(GetOr(@, m.name, <<>>), m.duration_ms))]
  ELSE
    [acc EXCEPT !.errors = Put(@, m.name, GetOr(@, m.name, 0) + 1)]

RECURSIVE TallyRun(_, _)
TallyRun(acc, ms) ==
  IF ms = <<>> THEN acc ELSE TallyRun(Tally(acc, Head(ms)), Tail(ms))

RECURSIVE TallyAll(_, _)
TallyAll(acc, runs) ==
  IF runs = <<>> THEN acc
  ELSE TallyAll(TallyRun(acc, Head(runs).measurements), Tail(runs))

\* by_name, errors, summary and the report written
Report ==
  /\ pc = "report"
  /\ LET acc == TallyAll([by_name |-> <<>>, errors |-> <<>>], all_runs) IN
       summary' = <<[runs |-> cfg.runs, timeout_ms |-> cfg.timeout_ms,
                     stats |-> [nm \in DOMAIN acc.by_name |->
                                  summarize(acc.by_name[nm])],
                     errors |-> acc.errors,
                     raw |-> all_runs]>>
  /\ pc' = "done"
  /\ UNCHANGED <<now, page, tgt, timeout_ms, stack, result, log, polls>>
  /\ UNCHANGED <<cfg, i, j, t0, out, all_runs, trigs, phases>>
  /\ UNCHANGED svars

(* ---------------------- initial states of a scenario ------------------ *)
Triggers1 == {Trigger("goto", <<>>, <<>>, <<>>), Trigger("click", <<"#a">>, <<>>, <<>>),
              Trigger("click", <<>>, <<>>, <<>>), Trigger("fill", <<"#a">>, <<>>, <<>>),
              Trigger("press", <<>>, <<"Enter">>, <<>>), Trigger("press", <<>>, <<>>, <<>>),
              Trigger("sleep", <<>>, <<>>, <<1>>), Trigger("hover", <<"#a">>, <<>>, <<>>)}
Triggers2 == {Trigger("click", <<"#b">>, <<>>, <<>>), Trigger("tap", <<>>, <<>>, <<>>)}
Targets1 == {WaitState("wait_visible", "#a"), SleepT(<<1>>), BogusT,
             WaitAnyT(<<WaitState("wait_hidden", "#a"), WaitState("wait_attached", "#b")>>,
                      <<>>, <<1>>, <<1>>),
             WaitStableT(<<1>>, <<1>>)}
Targets2 == {WaitState("wait_detached", "#b"), SleepT(<<>>)}
Names == {<< <<"m1">>, <<"m2">> >>, << <<"m1">>, <<"m1">> >>, << <<>>, <<"m2">> >>}

Scenarios ==
  {<<>>}
  \cup {<<Measurement(nm[1], tr, tg)>> : nm \in Names, tr \in Triggers1, tg \in Targets1}
  \cup {<<Measurement(nm[1], tr1, tg1), Measurement(nm[2], tr2, tg2)>> :
          nm \in Names, tr1 \in Triggers1, tg1 \in Targets1,
          tr2 \in Triggers2, tg2 \in Targets2}

Init ==
  /\ cfg \in [runs : 0..MaxRuns, timeout_ms : {2}, measurements : Scenarios]
  /\ pc = IF cfg.runs > 0 THEN "measure" ELSE "report"
  /\ i = 0
  /\ j = 0
  /\ t0 = 0
  /\ out = <<>>
  /\ all_runs = <<>>
  /\ summary = <<>>
  /\ trigs = <<>>
  /\ phases = <<>>
  /\ vals = <<>>
  /\ pct = 0
  /\ stat = NoStat
  /\ now = 0
  /\ page \in {[QuietPage EXCEPT !.ready["#b"] = <<0>>],
                [QuietPage EXCEPT !.ready["#a"] = <<MaxAt>>, !.changes = {1, 2}]}
  /\ tgt = BogusT
  /\ timeout_ms = cfg.timeout_ms
  /\ stack = <<>>
  /\ result = Idle
  /\ log = <<>>
  /\ polls = <<>>

Next ==
  \/ MeasureTrigger
  \/ MeasureTarget
  \/ MeasureRecord
  \/ EndRun
  \/ Report
  \/ WaitAnyAttempt
  \/ WaitAnyPollGap
  \/ WaitStablePoll

Spec == Init /\ [][Next]_vars

(* ---------------------- the statistics on their own ------------------- *)
\* the lists of at most MaxLen durations, each in 0..MaxDur
Lists == UNION {[1..n -> 0..MaxDur] : n \in 0..MaxLen}
Percents == {0, 1, 25, 50, 75, 95, 99, 100}

InitStats ==
  /\ vals \in Lists
  /\ pct \in Percents
  /\ stat = NoStat
  /\ pc = "stats"
  /\ cfg = [runs |-> 0, timeout_ms |-> 0, measurements |-> <<>>]
  /\ i = 0
  /\ j = 0
  /\ t0 = 0
  /\ out = <<>>
  /\ all_runs = <<>>
  /\ summary = <<>>
  /\ trigs = <<>>
  /\ phases = <<>>
  /\ now = 0
  /\ page = QuietPage
  /\ tgt = BogusT
  /\ timeout_ms = 0
  /\ stack = <<>>
  /\ result = Idle
  /\ log = <<>>
  /\ polls = <<>>

Applied(op, res) ==
  /\ pc = "stats"
  /\ stat = NoStat
  /\ stat' = [op |-> op, res |-> res]
  /\ UNCHANGED <<vals, pct>>
  /\ UNCHANGED <<now, page, tgt, timeout_ms, stack, result, log, polls>>
  /\ UNCHANGED rvars

Percentile == Applied("percentile", percentile(vals, pct))
PercentileUi == Applied("percentile_ui", percentile_ui(vals, pct))
Summarize == Applied("summarize", summarize(vals))

NextStats ==
  \/ Percentile
  \/ PercentileUi
  \/ Summarize

SpecStats == InitStats /\ [][NextStats]_vars

(* ====================================================================== *)
(*                               the claims                               *)
(* ====================================================================== *)
Done == result.status \in {"ok", "error"}
Total == Get(tgt.timeout_ms, timeout_ms)

\* the attempts made so far by the wait_any at depth d of the stack
TriesAt(d) == SelectSeq(log, LAMBDA e : e.ev = "try" /\ e.depth = d)
LastTry == TriesAt(1)[Len(TriesAt(1))]

\* [A, B]: two selector waits whose states are reached at the same instant
\* TieAt, inside the total timeout
IsTie ==
  /\ tgt.type = "wait_any"
  /\ Len(tgt.targets) = 2
  /\ tgt.targets[1].type \in StateTypes
  /\ tgt.targets[2].type \in StateTypes
  /\ page.ready[tgt.targets[1].selector] # <<>>
  /\ page.ready[tgt.targets[1].selector] = page.ready[tgt.targets[2].selector]
  /\ page.ready[tgt.targets[1].selector][1] < Total
TieAt == page.ready[tgt.targets[1].selector][1]

\* C1 (as stated): whenever A and B become satisfiable at the same instant
\* inside the total timeout, wait_any returns success with winner index 0.
C1_TieBreakAlwaysFirst ==
  (IsTie /\ Done) =>
     /\ result.status = "ok"
     /\ result.details[1].wait_any_winner_index = 0

\* C1 (amended): the winner is the sub-target whose attempt returned; B is
\* reported only when the instant of the tie falls within B's attempt (A's
\* attempt of that round having timed out no later than that instant), and
\* wait_any fails only when every attempt had ended by the instant of the tie.
C1_TieBreakByAttempt ==
  (IsTie /\ Done) =>
     /\ result.status = "ok" =>
          /\ result.details[1].wait_any_winner_index = LastTry.idx
          /\ result.details[1].wait_any_winner = tgt.targets[LastTry.idx + 1]
          /\ TieAt <= LastTry.at + LastTry.ms
          /\ LastTry.idx = 1 => LastTry.at <= TieAt
          /\ TieAt <= 0 => LastTry.idx = 0
     /\ result.status = "error" =>
          \A k \in 1..Len(TriesAt(1)) : TriesAt(1)[k].at + TriesAt(1)[k].ms <= TieAt

\* B wins a tie that falls strictly inside the total timeout
C1_Witness ==
  /\ IsTie
  /\ result.status = "ok"
  /\ result.details[1].wait_any_winner_index = 1
  /\ tgt.targets[1] # tgt.targets[2]
  /\ LastTry.at < TieAt

\* a sub-target that fails on every attempt: a selector that never reaches
\* its state, an unsupported type, or a wait_any over such sub-targets
FailsAlways(t) ==
  \/ t.type \in StateTypes /\ page.ready[t.selector] = <<>>
  \/ t.type \notin StateTypes \cup {"sleep", "wait_stable", "wait_any"}
NeverSucceeds(t) ==
  \/ FailsAlways(t)
  \/ /\ t.type = "wait_any"
     /\ \A k \in 1..Len(t.targets) : FailsAlways(t.targets[k])

\* C2: a wait_any whose sub-targets never succeed times out no earlier than
\* its total timeout T and no later than T + slice_ms + poll_gap_ms after it
\* was entered.
C2_TimeoutWindow ==
  (/\ tgt.type = "wait_any"
   /\ \A k \in 1..Len(tgt.targets) : NeverSucceeds(tgt.targets[k])
   /\ result.status = "error" /\ result.name = "TimeoutError") =>
     /\ result.doneAt >= Total
     /\ result.doneAt <= Total + Get(tgt.slice_ms, DefaultSliceMs)
                               + Get(tgt.poll_gap_ms, DefaultPollGapMs)

\* every poll of the outermost wait_stable saw a snapshot that differs from
\* the one before it
EveryPollDiffers == \A k \in 2..Len(polls) : polls[k].cur # polls[k - 1].cur

\* C3: with stable_ms > 0, a wait_stable whose every poll sees a changed
\* snapshot never succeeds: it is still polling inside its timeout, or it
\* has failed with a timeout error at the instant the timeout elapsed.
C3_NeverQuiescent ==
  (tgt.type = "wait_stable" /\ Get(tgt.stable_ms, DefaultStableMs) > 0
     /\ EveryPollDiffers) =>
     /\ result.status # "ok"
     /\ result.status = "error" =>
          /\ result.name = "TimeoutError"
          /\ result.doneAt = timeout_ms
     /\ result.status # "error" => now <= timeout_ms

C3_Witness ==
  /\ tgt.type = "wait_stable"
  /\ Get(tgt.stable_ms, DefaultStableMs) > 0
  /\ EveryPollDiffers
  /\ Len(polls) >= 4
  /\ result.status = "error"

\* the instant of the last poll that saw a change (the start, if none did)
ChangeTicks == {k \in 2..Len(polls) : polls[k].cur # polls[k - 1].cur}
LastSeenChange ==
  IF ChangeTicks = {} THEN 0
  ELSE polls[CHOOSE k \in ChangeTicks : \A l \in ChangeTicks : l <= k].at
FirstChange == CHOOSE c \in page.changes : \A d \in page.changes : c <= d

\* C4 (as stated): on a document that changes k >= 1 times, wait_stable
\* succeeds within one poll interval of (time of the first change) + stable_ms.
C4_SuccessAtFirstChange ==
  (tgt.type = "wait_stable" /\ page.changes # {} /\ result.status = "ok") =>
     /\ result.doneAt >= FirstChange + Get(tgt.stable_ms, DefaultStableMs)
                           - Get(tgt.poll_ms, DefaultPollMs)
     /\ result.doneAt <= FirstChange + Get(tgt.stable_ms, DefaultStableMs)
                           + Get(tgt.poll_ms, DefaultPollMs)

\* C4 (amended): wait_stable succeeds at a poll, no earlier than stable_ms
\* after the last poll that saw a change (after its start, if none did) and
\* at most one poll interval later than that.
C4_SuccessAtLastChange ==
  (tgt.type = "wait_stable" /\ result.status = "ok") =>
     /\ result.doneAt = polls[Len(polls)].at
     /\ result.doneAt >= LastSeenChange + Get(tgt.stable_ms, DefaultStableMs)
     /\ result.doneAt <= LastSeenChange + Get(tgt.stable_ms, DefaultStableMs)
                           + Get(tgt.poll_ms, DefaultPollMs)

\* three changes, and a success later than the first change allows
C4_Witness ==
  /\ tgt.type = "wait_stable"
  /\ result.status = "ok"
  /\ Cardinality(page.changes) >= 3
  /\ Cardinality(ChangeTicks) >= 2
  /\ result.doneAt > FirstChange + Get(tgt.stable_ms, DefaultStableMs)
                        + Get(tgt.poll_ms, DefaultPollMs)

\* C9: no activation of do_target is in progress after the deadline
\* now + timeout it was given, and none returns successfully after it.
C9_DeadlineBounded ==
  /\ \A k \in 1..Len(stack) : now <= stack[k].budget_end
  /\ result.status = "ok" => result.doneAt <= timeout_ms

\* C10: the timeout error of a wait_any carries the last min(m, 6) of the m
\* errors it recorded, in the order recorded, each with the index of the
\* sub-target that raised it.
C10_ErrorTail ==
  [][(/\ Len(stack) = 1
      /\ top.tgt.type = "wait_any"
      /\ result'.status = "error")
       => LET m == Len(top.last_errs)
              n == IF m <= 6 THEN m ELSE 6
          IN /\ m = Len(TriesAt(1))
             /\ Len(result'.tail) = n
             /\ \A k \in 1..n :
                  /\ result'.tail[k] = top.last_errs[m - n + k]
                  /\ result'.tail[k].idx = TriesAt(1)[m - n + k].idx]_vars

\* a timeout error after more than six failed attempts
C10_Witness ==
  /\ tgt.type = "wait_any"
  /\ result.status = "error"
  /\ Len(TriesAt(1)) > 6
  /\ Len(result.tail) = 6
  /\ result.tail[1].idx # result.tail[2].idx

\* C13: a wait_any that is a sub-target of a wait_any has a deadline no
\* later than the end of the slice min(slice_ms, remaining) it was given,
\* whatever its own timeout_ms field.
C13_NestedWithinSlice ==
  \A k \in 2..Len(stack) :
    stack[k].tgt.type = "wait_any" => stack[k].deadline <= stack[k].budget_end

\* C14: every attempt of a sub-target by a wait_any (at any depth) starts
\* strictly before the wait_any's deadline, and the timeout handed to the
\* sub-target is min(slice_ms, time remaining until the deadline): positive,
\* no more than slice_ms and no more than the time remaining.
C14_AttemptBudget ==
  [][(Len(log') = Len(log) + 1 /\ log'[Len(log')].ev = "try")
       => LET e == log'[Len(log')] IN
            /\ e.depth = Len(stack)
            /\ e.at = now
            /\ now < top.deadline
            /\ e.ms = Min(slice_of(top), top.deadline - now)
            /\ e.ms > 0
            /\ e.ms <= slice_of(top)
            /\ e.ms <= top.deadline - now
            /\ Len(stack') > Len(stack) =>
                 stack'[Len(stack')].budget_end = now + e.ms]_vars

\* an attempt that got the whole slice, then one cut short by the deadline,
\* handed to a nested loop
C14_Witness ==
  /\ tgt.type = "wait_any"
  /\ Len(stack) = 2
  /\ Len(TriesAt(1)) >= 2
  /\ TriesAt(1)[1].ms = Get(tgt.slice_ms, DefaultSliceMs)
  /\ LastTry.ms < Get(tgt.slice_ms, DefaultSliceMs)
  /\ LastTry.ms = Total - LastTry.at
  /\ stack[2].budget_end = LastTry.at + LastTry.ms

\* the attempts and poll gaps of the outermost wait_any, in order
Events1 == SelectSeq(log, LAMBDA e : e.depth = 1)

\* C15: the first attempt of a wait_any is of sub-target 0; an attempt that
\* follows an attempt is of the next index, one that follows a poll gap is of
\* index 0; every attempt before the one in hand has failed and left its
\* error; and a success is returned at once: nothing follows the successful
\* attempt, all attempts before it failed, and the winner returned is its
\* index and its definition.
C15_OrderAndEarlyExit ==
  /\ [](tgt.type = "wait_any" =>
          /\ Events1 # <<>> => (Events1[1].ev = "try" /\ Events1[1].idx = 0)
          /\ \A k \in 2..Len(Events1) :
               Events1[k].ev = "try" =>
                 IF Events1[k - 1].ev = "try"
                 THEN Events1[k].idx = Events1[k - 1].idx + 1
                 ELSE Events1[k].idx = 0
          /\ stack # <<>> =>
               /\ Len(stack[1].last_errs)
                    = Len(TriesAt(1)) - (IF Len(stack) > 1 THEN 1 ELSE 0)
               /\ \A k \in 1..Len(stack[1].last_errs) :
                    stack[1].last_errs[k].idx = TriesAt(1)[k].idx
          /\ result.status = "ok" =>
               /\ Events1[Len(Events1)] = LastTry
               /\ result.details[1].wait_any_winner_index = LastTry.idx
               /\ result.details[1].wait_any_winner = tgt.targets[LastTry.idx + 1])
  /\ [][(stack # <<>> /\ tgt.type = "wait_any" /\ result'.status = "ok")
          => /\ Len(stack[1].last_errs)
                  = Len(SelectSeq(log', LAMBDA e : e.ev = "try" /\ e.depth = 1)) - 1
             /\ result'.doneAt = now']_vars

\* the third of three sub-targets wins in a later round
C15_Witness ==
  /\ tgt.type = "wait_any"
  /\ Len(tgt.targets) = 3
  /\ result.status = "ok"
  /\ result.details[1].wait_any_winner_index = 2
  /\ Len(TriesAt(1)) >= 6
  /\ \E k \in 1..Len(Events1) : Events1[k].ev = "gap"

\* C16: a wait_any sleeps its poll gap only after a round that attempted
\* every sub-target without a winner and while time remains before its
\* deadline, never once the deadline has been reached; what follows the
\* sleep is a new round, from sub-target 0.
C16_PollGapOnlyWithTimeLeft ==
  tgt.type = "wait_any" =>
    \A k \in 1..Len(Events1) :
      Events1[k].ev = "gap" =>
        /\ Events1[k].at < Total
        /\ k > 1
        /\ Events1[k - 1].ev = "try"
        /\ Events1[k - 1].idx = Len(tgt.targets) - 1
        /\ k < Len(Events1) =>
             (Events1[k + 1].ev = "try" /\ Events1[k + 1].idx = 0)

\* C17: a sleep target returns success after its ms whatever timeout it is
\* given: called by the runner, it ends ok at ms; attempted by a wait_any (at
\* any depth, with any slice), it waits its ms and the wait_any returns at
\* once, with that sub-target as the winner.
C17_SleepAlwaysSucceeds ==
  /\ []((tgt.type = "sleep" /\ Done) =>
          (result.status = "ok" /\ result.doneAt = Get(tgt.ms, 0)))
  /\ [](tgt.type = "wait_any" =>
          \A k \in 1..Len(TriesAt(1)) :
            tgt.targets[TriesAt(1)[k].idx + 1].type = "sleep" =>
              /\ k = Len(TriesAt(1))
              /\ result.status = "ok"
              /\ result.details[1].wait_any_winner_index = TriesAt(1)[k].idx
              /\ result.details[1].wait_any_winner.type = "sleep"
              /\ result.doneAt
                   = TriesAt(1)[k].at + Get(tgt.targets[TriesAt(1)[k].idx + 1].ms, 0))
  /\ [][(/\ stack # <<>>
          /\ Len(log') = Len(log) + 1
          /\ log'[Len(log')].ev = "try"
          /\ top.tgt.targets[top.idx + 1].type = "sleep")
          => /\ result'.status = "ok"
             /\ stack' = <<>>
             /\ now' = now + Get(top.tgt.targets[top.idx + 1].ms, 0)
             /\ result'.details[1].wait_any_winner_index = stack[1].idx]_vars

\* a sleep of 2 ms wins a wait_any that gave it a slice of 1 ms
C17_Witness ==
  /\ tgt.type = "wait_any"
  /\ result.status = "ok"
  /\ result.details[1].wait_any_winner.type = "sleep"
  /\ Get(result.details[1].wait_any_winner.ms, 0) > LastTry.ms
  /\ result.doneAt > LastTry.at + LastTry.ms

\* C19: the polls of a wait_stable are one poll interval apart, the first one
\* a poll interval after its start; at every poll the reference time is the
\* instant of the last poll that saw a difference (the start, if none did)
\* and the stored snapshot is the last one taken; success is returned only at
\* a poll, not before the first poll interval has elapsed, and only when at
\* least stable_ms has elapsed since the reference time.
C19_DebounceSafety ==
  tgt.type = "wait_stable" =>
    /\ \A k \in 1..Len(polls) : polls[k].at = (k - 1) * Get(tgt.poll_ms, DefaultPollMs)
    /\ stack # <<>> =>
         /\ stack[1].lastChange = LastSeenChange
         /\ stack[1].prev = polls[Len(polls)].cur
         /\ now = polls[Len(polls)].at
    /\ result.status = "ok" =>
         /\ Len(polls) >= 2
         /\ result.doneAt = polls[Len(polls)].at
         /\ result.doneAt >= Get(tgt.poll_ms, DefaultPollMs)
         /\ result.doneAt - LastSeenChange >= Get(tgt.stable_ms, DefaultStableMs)

\* success exactly stable_ms after the second of two differences seen
C19_Witness ==
  /\ tgt.type = "wait_stable"
  /\ result.status = "ok"
  /\ Get(tgt.stable_ms, DefaultStableMs) >= 2
  /\ Cardinality(ChangeTicks) = 2
  /\ result.doneAt = LastSeenChange + Get(tgt.stable_ms, DefaultStableMs)

(* ------------------------ claims on the run loop ---------------------- *)
NMeas == Len(cfg.measurements)
KnownTargetTypes == StateTypes \cup {"sleep", "wait_stable", "wait_any"}

\* the results recorded so far for measurement k (1-based), over all runs
ResultsOf(k) ==
  {all_runs[r].measurements[k] :
     r \in {x \in 1..Len(all_runs) : k <= Len(all_runs[x].measurements)}}
  \cup (IF k <= Len(out) THEN {out[k]} ELSE {})

\* C5: every run yields one result per configured measurement, in scenario
\* order, whatever fails: a failed result carries its error, and the
\* measurements after it in the run have been executed.
C5_OneResultPerMeasurement ==
  /\ \A r \in 1..Len(all_runs) :
       /\ Len(all_runs[r].measurements) = NMeas
       /\ \A k \in 1..NMeas :
            /\ all_runs[r].measurements[k].name = name_of(cfg.measurements[k])
            /\ all_runs[r].measurements[k].ok <=> all_runs[r].measurements[k].error = <<>>
            /\ \E n \in 1..Len(trigs) : trigs[n] = [run |-> r, m |-> k - 1]
  /\ Len(out) <= NMeas
  /\ \A k \in 1..Len(out) :
       /\ out[k].name = name_of(cfg.measurements[k])
       /\ out[k].ok <=> out[k].error = <<>>

\* a run whose first measurement failed and whose second succeeded
C5_Witness ==
  \E r \in 1..Len(all_runs) :
    /\ Len(all_runs[r].measurements) = 2
    /\ ~all_runs[r].measurements[1].ok
    /\ all_runs[r].measurements[2].ok

HasUnknownType ==
  \E k \in 1..NMeas :
    \/ cfg.measurements[k].trigger.type \notin TriggerTypes
    \/ cfg.measurements[k].target.type \notin KnownTargetTypes

C7_AllRunsOnce ==
  /\ \A r \in 1..Len(all_runs) : all_runs[r].run_index = r
  /\ Len(all_runs) <= cfg.runs
  /\ pc \in {"report", "done"} =>
       /\ Len(all_runs) = cfg.runs
       /\ Len(trigs) = cfg.runs * NMeas
  /\ \A n \in 1..Len(trigs) :
       trigs[n] = [run |-> ((n - 1) \div NMeas) + 1, m |-> (n - 1) % NMeas]
  /\ Len(trigs) = Len(all_runs) * NMeas + (IF pc \in {"target", "wait"} THEN j + 1 ELSE j)

\* three runs of two measurements have ended, the first run with a failure
C7_Witness ==
  /\ pc = "done"
  /\ cfg.runs = 3
  /\ NMeas = 2
  /\ Len(all_runs) = 3
  /\ ~all_runs[1].measurements[1].ok
  /\ all_runs[3].measurements[1].ok

\* the positions (run, measurement) of the results named nm, by outcome
Positions(nm, ok) ==
  {p \in (1..Len(all_runs)) \X (1..NMeas) :
     /\ p[2] <= Len(all_runs[p[1]].measurements)
     /\ all_runs[p[1]].measurements[p[2]].name = nm
     /\ all_runs[p[1]].measurements[p[2]].ok = ok}
Declared(nm) == {k \in 1..NMeas : name_of(cfg.measurements[k]) = nm}
AllNames == {"m1", "m2", "unnamed"}

\* C8: in the report, for every name, errors[name] is the number of failed
\* results of that name (no entry when there is none), stats[name].n the
\* number of successful ones (no entry when there is none), the two add up
\* to runs times the measurements declared with that name, and min_ms and
\* max_ms are durations of successful results.
C8_ReportCounts ==
  pc = "done" =>
    LET rep == summary[1] IN
      /\ DOMAIN rep.errors \subseteq AllNames
      /\ DOMAIN rep.stats \subseteq AllNames
      /\ \A nm \in AllNames :
           LET bad == Positions(nm, FALSE)
               good == Positions(nm, TRUE)
               durs == {all_runs[p[1]].measurements[p[2]].duration_ms : p \in good}
           IN /\ nm \in DOMAIN rep.errors <=> bad # {}
              /\ bad # {} => rep.errors[nm] = Cardinality(bad)
              /\ nm \in DOMAIN rep.stats <=> good # {}
              /\ good # {} =>
                   /\ rep.stats[nm].n = Cardinality(good)
                   /\ \E d \in durs : rep.stats[nm].min_ms = 100 * d
                   /\ \E d \in durs : rep.stats[nm].max_ms = 100 * d
                   /\ \A d \in durs : /\ rep.stats[nm].min_ms <= 100 * d
                                       /\ 100 * d <= rep.stats[nm].max_ms
              /\ Cardinality(bad) + Cardinality(good)
                   = cfg.runs * Cardinality(Declared(nm))

\* runs = 3, m1 always failing, m2 always succeeding
C8_Witness ==
  /\ pc = "done"
  /\ cfg.runs = 3
  /\ NMeas = 2
  /\ "m1" \in DOMAIN summary[1].errors
  /\ summary[1].errors["m1"] = 3
  /\ "m1" \notin DOMAIN summary[1].stats
  /\ "m2" \in DOMAIN summary[1].stats
  /\ summary[1].stats["m2"].n = 3
  /\ "m2" \notin DOMAIN summary[1].errors

\* the results of run r: of a run that has ended, or of the run in hand
Results(r) == IF r <= Len(all_runs) THEN all_runs[r].measurements ELSE out

\* the phases recorded for measurement k (1-based) of run r
PhasesOf(r, k, ph) ==
  SelectSeq(phases, LAMBDA e : e.run = r /\ e.m = k - 1 /\ e.ph = ph)

\* C18: for every result recorded, the trigger was executed once; the target
\* was executed, right after the trigger, exactly when the trigger ended
\* without error; the duration is t1 - t0, with t0 taken before the trigger
\* and t1 after the phase that ended the measurement; ok is true exactly when
\* both phases succeeded, and error is set exactly when ok is false.
C18_DurationAlwaysRecorded ==
  /\ \A r \in 1..(Len(all_runs) + 1) : \A k \in 1..Len(Results(r)) :
       LET res == Results(r)[k]
           tr == PhasesOf(r, k, "trigger")
           tg == PhasesOf(r, k, "target")
           en == PhasesOf(r, k, "t1")
       IN /\ Len(tr) = 1
          /\ Len(tg) = (IF tr[1].ok THEN 1 ELSE 0)
          /\ Len(en) = Len(tg)
          /\ tr[1].ok => (tg[1].from = tr[1].to /\ en[1].to >= tg[1].from)
          /\ res.duration_ms = (IF tr[1].ok THEN en[1].to ELSE tr[1].to) - tr[1].from
          /\ res.ok <=> (tr[1].ok /\ en[1].ok)
          /\ res.error # <<>> <=> ~res.ok
  /\ pc \in {"target", "wait"} =>
       /\ Len(PhasesOf(i + 1, j + 1, "trigger")) = 1
       /\ PhasesOf(i + 1, j + 1, "trigger")[1].ok
       /\ PhasesOf(i + 1, j + 1, "trigger")[1].from = t0

\* a run in which a trigger failed after some time (no target executed) and
\* a target failed behind a trigger that passed, later in the session
C18_Witness ==
  \E r \in 2..Len(all_runs) :
    /\ Len(all_runs[r].measurements) = 2
    /\ ~all_runs[r].measurements[1].ok
    /\ all_runs[r].measurements[1].duration_ms > 0
    /\ PhasesOf(r, 1, "target") = <<>>
    /\ ~all_runs[r].measurements[2].ok
    /\ PhasesOf(r, 2, "target") # <<>>
    /\ all_runs[r].measurements[2].duration_ms > ActMs

\* the triggers executed so far, over all runs, whose type is in types (and
\* which passed, when passed is asked for)
TriggersRun(types, passed) ==
  {n \in 1..Len(phases) :
     /\ phases[n].ph = "trigger"
     /\ cfg.measurements[phases[n].m + 1].trigger.type \in types
     /\ passed => phases[n].ok}

\* C20: the document is touched by nothing but the triggers: over the whole
\* session it has seen one navigation per goto trigger executed and one input
\* per click, fill or key press that went through, the counts running on
\* from one run to the next; the step from the last measurement of a run to
\* the next run, and the report, leave the document as it is.
C20_OneSession ==
  /\ [](/\ page.navs = Cardinality(TriggersRun({"goto"}, FALSE))
         /\ page.inputs = Cardinality(TriggersRun({"click", "fill", "press"}, TRUE)))
  /\ [][page' # page => (pc = "measure" /\ j < Len(cfg.measurements)
                          /\ Len(trigs') = Len(trigs) + 1)]_vars
  /\ [][i' # i => page' = page]_vars

\* three runs of a goto and a click have ended on the same document
C20_Witness ==
  /\ pc = "done"
  /\ cfg.runs = 3
  /\ Len(cfg.measurements) = 2
  /\ cfg.measurements[1].trigger.type = "goto"
  /\ page.navs = 3
  /\ page.inputs = 3

(* ----------------------- claims on the statistics --------------------- *)
Elems(xs) == {xs[k] : k \in 1..Len(xs)}
MinOf(xs) == CHOOSE v \in Elems(xs) : \A w \in Elems(xs) : v <= w
MaxOf(xs) == CHOOSE v \in Elems(xs) : \A w \in Elems(xs) : v >= w

\* C11: percentile of a non-empty list is its minimum at p = 0 and its
\* maximum at p = 1; of a one-element list [v] it is v at every p; of the
\* empty list it is not-a-number at every p (in both source files).
C11_PercentileEndpoints ==
  stat.op \in {"percentile", "percentile_ui"} =>
    /\ vals = <<>> => stat.res = <<>>
    /\ vals # <<>> =>
         /\ stat.res # <<>>
         /\ pct = 0 => stat.res[1] = 100 * MinOf(vals)
         /\ pct = 100 => stat.res[1] = 100 * MaxOf(vals)
         /\ Len(vals) = 1 => stat.res[1] = 100 * vals[1]

\* p = 1 on a list that is not sorted, whose maximum is not its last element
C11_Witness ==
  /\ stat.op = "percentile"
  /\ pct = 100
  /\ Len(vals) >= 3
  /\ vals[1] > vals[2]
  /\ vals[Len(vals)] < MaxOf(vals)
  /\ stat.res = <<100 * MaxOf(vals)>>

\* C12: the summary of a non-empty list has n = its length and
\* min_ms <= p50_ms <= p95_ms <= max_ms; the summary of the empty list is
\* exactly {n: 0}.
C12_SummaryOrdered ==
  stat.op = "summarize" =>
    IF vals = <<>> THEN stat.res = [n |-> 0]
    ELSE /\ DOMAIN stat.res = {"n", "avg_ms", "p50_ms", "p95_ms", "min_ms", "max_ms"}
         /\ stat.res.n = Len(vals)
         /\ stat.res.min_ms <= stat.res.p50_ms
         /\ stat.res.p50_ms <= stat.res.p95_ms
         /\ stat.res.p95_ms <= stat.res.max_ms

\* a list on which the four statistics are all different
C12_Witness ==
  /\ stat.op = "summarize"
  /\ Len(vals) >= 3
  /\ vals[1] > vals[2]
  /\ stat.res.min_ms < stat.res.p50_ms
  /\ stat.res.p50_ms < stat.res.p95_ms
  /\ stat.res.p95_ms < stat.res.max_ms

====
